---- MODULE Spec2Model ----
(***************************************************************************)
(* Model of the render-to-real backend: the upload middleware (multer),    *)
(* the /api/analyze and /api/transform handlers of server/index.js (raw    *)
(* HTTP calls) and the /api/transform handler of the SDK server variant    *)
(* (the second server file of the repository, which builds an OpenAIClient *)
(* at module load).  Each request is a small state machine whose steps are *)
(* the synchronous segments of its handler between two awaits.             *)
(***************************************************************************)
EXTENDS Integers, Sequences, FiniteSets, TLC

VARIABLES variant,   \* which server file runs: "fetch" (server/index.js) or "sdk"
          env,       \* process.env: is AZURE_OPENAI_ENDPOINT / AZURE_OPENAI_API_KEY set
          server,    \* "loading", "listening" or "crashed"
          clock,     \* Date.now()
          files,     \* uploads/ directory: name -> 0 (absent) or the last request that wrote it
          req,       \* per request: position in its handler, inputs, response
          client     \* the browser client: App's state, its file readers and fetches

vars == <<variant, env, server, clock, files, req, client>>

(* ---------------------------- bounds ---------------------------------- *)
NumReq == 2       \* requests the model follows
MaxClock == 1     \* Date.now() takes the values 0..MaxClock
MaxStrLen == 3    \* longest instructions / sceneAnalysis form field
NumImages == 2    \* image files the user can pick in the browser

Reqs == 1..NumReq

(* ---------------------------- strings --------------------------------- *)
\* Text is a tuple of one-character strings.
Chars == {" ", "a"}

Strings(n) == UNION {[1..k -> Chars] : k \in 0..n}

\* A form field the client did not send: req.body.<field> is undefined.
Undefined == <<"undefined">>

FieldValues == {Undefined} \cup Strings(MaxStrLen)

\* The server specification sends no optional form field; the prompt
\* specification draws both fields from FieldValues.
NoFields == {Undefined}

IsSpace(c) == c = " "

RECURSIVE TrimStart(_)
TrimStart(s) == IF s # <<>> /\ IsSpace(Head(s)) THEN TrimStart(Tail(s)) ELSE s

RECURSIVE TrimEnd(_)
TrimEnd(s) ==
  IF s # <<>> /\ IsSpace(s[Len(s)]) THEN TrimEnd(SubSeq(s, 1, Len(s) - 1)) ELSE s

\* String.prototype.trim
Trim(s) == TrimEnd(TrimStart(s))

\* s.includes(sub): what an unanchored RegExp.test of a literal does
Includes(s, sub) ==
  \E i \in 0..(Len(s) - Len(sub)) : SubSeq(s, i + 1, i + Len(sub)) = sub

ToLowerChar(c) ==
  CASE c = "P" -> "p" [] c = "N" -> "n" [] c = "G" -> "g" [] OTHER -> c

\* String.prototype.toLowerCase
ToLowerCase(s) == [i \in 1..Len(s) |-> ToLowerChar(s[i])]

(* ----------------------- upload middleware ----------------------------- *)
\* allowedTypes = /jpeg|jpg|png|webp/
allowedTypes == { <<"j","p","e","g">>, <<"j","p","g">>, <<"p","n","g">>, <<"w","e","b","p">> }

AllowedTest(s) == \E t \in allowedTypes : Includes(s, t)

\* path.extname(file.originalname) of the uploads the model sends
ExtChoices == { <<".","p","n","g">>, <<".","P","N","G">>, <<".","t","x","t">> }

\* file.mimetype of the uploads the model sends
MimeChoices == { <<"i","m","a","g","e","/","p","n","g">>,
                 <<"t","e","x","t","/","p","l","a","i","n">> }

\* fileFilter: cb(null, true) iff both tests pass, else cb(new Error(...))
fileFilter(ext, mime) ==
  LET extname == AllowedTest(ToLowerCase(ext))
      mimetype == AllowedTest(mime)
  IN  mimetype /\ extname

\* filename: Date.now() + path.extname(file.originalname)
filename(now, ext) == <<now, ext>>

NoName == <<-1, <<>>>>

Names == {filename(t, e) : t \in 0..MaxClock, e \in {x \in ExtChoices : AllowedTest(ToLowerCase(x))}}

(* --------------------------- requests ---------------------------------- *)
NoBody == [none |-> TRUE]
NoPrompt == <<>>
Null == "null"

IdleReq ==
  [pc |-> "idle",              \* idle, uploaded, awaiting, done
   route |-> "none",           \* "analyze" or "transform"
   upload |-> "none",          \* none (no file part), ok, badtype, oversize
   name |-> NoName,            \* req.file.filename
   instructions |-> Undefined, \* req.body.instructions
   sceneAnalysis |-> Undefined,\* req.body.sceneAnalysis
   prompt |-> NoPrompt,        \* the prompt handed to the image-generation call
   genCalls |-> 0,             \* image-generation calls attempted
   visionCalls |-> 0,          \* vision calls attempted
   outcome |-> "none",         \* what the external call answered
   scene |-> [raised |-> FALSE, value |-> Null], \* what analyzeScene gave back
   unlinks |-> 0,              \* fs.unlinkSync calls made by the handler
   responses |-> 0,            \* responses sent on res
   status |-> 0,               \* HTTP status of the response, 0 = none yet
   body |-> NoBody]            \* JSON body of the response

\* useState(...) of App, with the FileReaders and transform fetches under way
InitialClient ==
  [selectedImage |-> 0,     \* the chosen file (its number), 0 = null
   previewUrl |-> 0,        \* the data URL of a file (its number), 0 = null
   transformedImage |-> 0,  \* the result shown, named by the file it was made from, 0 = null
   loading |-> FALSE,
   error |-> "null",
   readers |-> {},          \* files whose reader.readAsDataURL has not ended
   inflight |-> {}]         \* files whose transform fetch has not been answered

HasFile(r) == req[r].upload = "ok"

Exists(name) == files[name] # 0

Routes == IF variant = "fetch" THEN {"analyze", "transform"} ELSE {"transform"}

(* ----------------------------- startup --------------------------------- *)
Init ==
  /\ variant \in {"fetch", "sdk"}
  /\ env \in [endpoint : BOOLEAN, apiKey : BOOLEAN]
  /\ server = "loading"
  /\ clock = 0
  /\ files = [n \in Names |-> 0]
  /\ req = [r \in Reqs |-> IdleReq]
  /\ client = InitialClient

\* new AzureKeyCredential(key) throws on an empty key; server/index.js builds no client
ModuleLoadThrows == variant = "sdk" /\ ~env.apiKey

\* Module load followed by app.listen
Start ==
  /\ server = "loading"
  /\ server' = IF ModuleLoadThrows THEN "crashed" ELSE "listening"
  /\ UNCHANGED <<variant, env, clock, files, req, client>>

\* Time passes
Tick ==
  /\ clock < MaxClock
  /\ clock' = clock + 1
  /\ UNCHANGED <<variant, env, server, files, req, client>>

\* Express's default error handler: an error handed to next(err) that carries no
\* status becomes a 500 with an HTML body.
DefaultErrorResponse(r, msg) ==
  [req[r] EXCEPT !.pc = "done", !.responses = @ + 1, !.status = 500,
                 !.body = [html |-> msg]]

\* A request arrives and upload.single('image') runs.
Arrive(r, F) ==
  /\ server = "listening"
  /\ req[r].pc = "idle"
  /\ \A q \in Reqs : q < r => req[q].pc # "idle"
  /\ \E route \in Routes, ins \in F, sa \in F :
       LET base == [req[r] EXCEPT !.route = route, !.instructions = ins,
                                  !.sceneAnalysis = sa]
       IN
       \/ \* no file part: req.file stays undefined, the handler runs
          /\ req' = [req EXCEPT ![r] = [base EXCEPT !.pc = "uploaded", !.upload = "none"]]
          /\ files' = files
       \/ \E ext \in ExtChoices, mime \in MimeChoices, tooBig \in BOOLEAN :
            IF ~fileFilter(ext, mime)
            THEN /\ req' = [req EXCEPT ![r] =
                      [DefaultErrorResponse(r, "Only image files are allowed!")
                         EXCEPT !.route = route, !.upload = "badtype"]]
                 /\ files' = files
            ELSE IF tooBig
            THEN \* LIMIT_FILE_SIZE: multer removes the partly written file
                 /\ req' = [req EXCEPT ![r] =
                      [DefaultErrorResponse(r, "File too large")
                         EXCEPT !.route = route, !.upload = "oversize"]]
                 /\ files' = [files EXCEPT ![filename(clock, ext)] = 0]
            ELSE /\ req' = [req EXCEPT ![r] =
                      [base EXCEPT !.pc = "uploaded", !.upload = "ok",
                                   !.name = filename(clock, ext)]]
                 /\ files' = [files EXCEPT ![filename(clock, ext)] = r]
  /\ UNCHANGED <<variant, env, server, clock, client>>

(* ------------------------ external services ---------------------------- *)
\* What the image-generation endpoint can answer to fetch (server/index.js):
\* transport: fetch rejects; status: !response.ok; malformed: response.json()
\* rejects; nodata: no data field; empty: data = []; b64: data[0].b64_json;
\* url: data[0].url.
GenOutcomes == {"transport", "status", "malformed", "nodata", "empty", "b64", "url"}

\* What client.getImages can give (SDK server): it rejects on transport and
\* status errors, else resolves with the decoded result.
SdkOutcomes == {"transport", "status", "nodata", "empty", "b64", "url"}

\* What the vision endpoint can answer: ok is a body with a non-empty
\* choices[0].message.content, okEmpty one whose content is "", nochoices a
\* body lacking choices[0].message.content.
VisionOutcomes == {"transport", "status", "malformed", "nochoices", "okEmpty", "ok"}

\* An unset api-key header is sent as the text "undefined": the service refuses it.
\* An upload stream that cannot open its file never completes the request body.
\* An SDK client built without an endpoint has no deployment to reach.
Answers(all, bodySent) ==
  IF ~env.apiKey \/ ~env.endpoint \/ ~bodySent THEN all \cap {"transport", "status"} ELSE all

(* ------------------------- prompt construction ------------------------- *)
\* The fixed template of server/index.js, one token for its text
BaseTemplate == <<"Transform this 3D rendered room into a photorealistic photograph. ...">>

SceneHeader == "\n\nIdentified objects and materials in the scene:\n"
SceneFooter == "\n\nEnsure these specific items and materials are rendered with photorealistic accuracy in the output."
InstructionsHeader == "\n\nAdditional instructions: "

\* req.body.<field> || ''
OrEmpty(v) == IF v = Undefined \/ v = <<>> THEN <<>> ELSE v

\* if (sceneAnalysis.trim()) prompt += ...
SceneSection(sceneAnalysis) ==
  IF Trim(sceneAnalysis) # <<>>
  THEN <<SceneHeader>> \o Trim(sceneAnalysis) \o <<SceneFooter>>
  ELSE <<>>

\* if (customInstructions.trim()) prompt += ...
InstructionsSection(customInstructions) ==
  IF Trim(customInstructions) # <<>>
  THEN <<InstructionsHeader>> \o Trim(customInstructions)
  ELSE <<>>

\* Mutant: the instructions section is appended before the scene section
BuildPrompt_InstructionsFirst(r) ==
  LET customInstructions == OrEmpty(req[r].instructions)
      sceneAnalysis == OrEmpty(req[r].sceneAnalysis)
  IN  BaseTemplate \o InstructionsSection(customInstructions) \o SceneSection(sceneAnalysis)

BuildPrompt(r) ==
  LET customInstructions == OrEmpty(req[r].instructions)
      sceneAnalysis == OrEmpty(req[r].sceneAnalysis)
  IN  BaseTemplate \o SceneSection(sceneAnalysis) \o InstructionsSection(customInstructions)

\* The fixed prompt of the SDK server, which reads no form field
SdkPrompt == <<"Transform this 3D rendered room into a photorealistic image. ...">>

(* --------------------------- responses -------------------------------- *)
Respond(q, status, body) ==
  [q EXCEPT !.pc = "done", !.responses = @ + 1, !.status = status, !.body = body]

NoFileBody == [error |-> "No image file provided"]

ErrorMessage(o) ==
  CASE o = "transport" -> "request failed"
    [] o = "status" -> "API request failed"
    [] o = "malformed" -> "invalid json response body"
    [] o = "nodata" -> "No image generated"
    [] o = "empty" -> "No image generated"
    [] o = "enoent" -> "ENOENT: no such file or directory"
    [] o = "badurl" -> "Only absolute URLs are supported"
    [] OTHER -> "error"

\* Mutant: the catch block answers without removing the upload
TransformCatch_NoCleanup(r, q, msg) ==
  /\ files' = files
  /\ req' = [req EXCEPT ![r] =
       Respond(q, 500, [error |-> "Failed to transform image", details |-> msg])]

\* The catch block of /api/transform (both servers): guarded unlink, then 500
TransformCatch(r, q, msg) ==
  LET present == HasFile(r) /\ Exists(req[r].name)
  IN  /\ files' = IF present THEN [files EXCEPT ![req[r].name] = 0] ELSE files
      /\ req' = [req EXCEPT ![r] =
           Respond([q EXCEPT !.unlinks = IF present THEN @ + 1 ELSE @], 500,
                   [error |-> "Failed to transform image", details |-> msg])]

(* ----------------------- /api/transform, index.js ---------------------- *)
\* From the entry of the handler to the await of fetch
TransformStart(r) ==
  /\ variant = "fetch"
  /\ req[r].pc = "uploaded"
  /\ req[r].route = "transform"
  /\ IF ~HasFile(r)
     THEN /\ req' = [req EXCEPT ![r] = Respond(@, 400, NoFileBody)]
          /\ files' = files
     ELSE LET q == [req[r] EXCEPT !.prompt = BuildPrompt(r), !.genCalls = @ + 1]
          IN  IF ~env.endpoint
              THEN \* fetch("undefined/openai/...") rejects: not an absolute URL
                   TransformCatch(r, [q EXCEPT !.outcome = "badurl"], ErrorMessage("badurl"))
              ELSE /\ req' = [req EXCEPT ![r] =
                        [q EXCEPT !.pc = "awaiting",
                                  !.outcome = IF Exists(req[r].name) THEN "sent" ELSE "nobody"]]
                   /\ files' = files
  /\ UNCHANGED <<variant, env, server, clock, client>>

\* GPT-Image-1.5 decoding: `data:image/png;base64,${result.data[0].b64_json}`
DataUri(o) == <<"data:image/png;base64,", IF o = "b64" THEN "b64_json" ELSE "undefined">>

\* Mutant: a failed image call is issued again instead of being answered
TransformFinish_RetryOnFailure(r) ==
  /\ variant = "fetch"
  /\ req[r].pc = "awaiting"
  /\ req[r].route = "transform"
  /\ \E o \in Answers(GenOutcomes, req[r].outcome = "sent") :
       LET q == [req[r] EXCEPT !.outcome = o]
       IN  IF o \in {"transport", "status"} /\ req[r].genCalls < 2
           THEN /\ req' = [req EXCEPT ![r].genCalls = @ + 1]
                /\ files' = files
           ELSE IF o \notin {"b64", "url"} \/ ~Exists(req[r].name)
           THEN TransformCatch(r, q, ErrorMessage(o))
           ELSE /\ files' = [files EXCEPT ![req[r].name] = 0]
                /\ req' = [req EXCEPT ![r] =
                     Respond([q EXCEPT !.unlinks = @ + 1], 200,
                             [success |-> TRUE, imageUrl |-> DataUri(o),
                              revisedPrompt |-> "revised_prompt || prompt"])]
  /\ UNCHANGED <<variant, env, server, clock, client>>

\* From the answer of fetch to the response
TransformFinish(r) ==
  /\ variant = "fetch"
  /\ req[r].pc = "awaiting"
  /\ req[r].route = "transform"
  /\ \E o \in Answers(GenOutcomes, req[r].outcome = "sent") :
       LET q == [req[r] EXCEPT !.outcome = o]
       IN  IF o \notin {"b64", "url"}
           THEN TransformCatch(r, q, ErrorMessage(o))
           ELSE IF ~Exists(req[r].name)
           THEN \* fs.unlinkSync throws ENOENT
                TransformCatch(r, [q EXCEPT !.unlinks = @ + 1], ErrorMessage("enoent"))
           ELSE /\ files' = [files EXCEPT ![req[r].name] = 0]
                /\ req' = [req EXCEPT ![r] =
                     Respond([q EXCEPT !.unlinks = @ + 1], 200,
                             [success |-> TRUE, imageUrl |-> DataUri(o),
                              revisedPrompt |-> "revised_prompt || prompt"])]
  /\ UNCHANGED <<variant, env, server, clock, client>>

(* ----------------------- /api/transform, SDK server -------------------- *)
\* From the entry of the handler to the await of client.getImages
SdkTransformStart(r) ==
  /\ variant = "sdk"
  /\ req[r].pc = "uploaded"
  /\ req[r].route = "transform"
  /\ IF ~HasFile(r)
     THEN /\ req' = [req EXCEPT ![r] = Respond(@, 400, NoFileBody)]
          /\ files' = files
     ELSE IF ~Exists(req[r].name)
     THEN \* fs.readFileSync throws ENOENT
          TransformCatch(r, [req[r] EXCEPT !.outcome = "enoent"], ErrorMessage("enoent"))
     ELSE /\ req' = [req EXCEPT ![r] =
               [@ EXCEPT !.pc = "awaiting", !.prompt = SdkPrompt, !.genCalls = @ + 1,
                         !.outcome = "sent"]]
          /\ files' = files
  /\ UNCHANGED <<variant, env, server, clock, client>>

\* The provider's data[0].url
ProviderUrl == <<"https://generated.example/image.png">>

\* DALL-E decoding: result.data[0].url; res.json drops a key whose value is undefined
SdkSuccessBody(o) ==
  IF o = "url"
  THEN [success |-> TRUE, imageUrl |-> ProviderUrl,
        revisedPrompt |-> "revisedPrompt"]
  ELSE [success |-> TRUE]

\* From the answer of client.getImages to the response
SdkTransformFinish(r) ==
  /\ variant = "sdk"
  /\ req[r].pc = "awaiting"
  /\ req[r].route = "transform"
  /\ \E o \in Answers(SdkOutcomes, TRUE) :
       LET q == [req[r] EXCEPT !.outcome = o]
       IN  IF o \notin {"b64", "url"}
           THEN TransformCatch(r, q, ErrorMessage(o))
           ELSE IF ~Exists(req[r].name)
           THEN \* fs.unlinkSync throws ENOENT
                TransformCatch(r, [q EXCEPT !.unlinks = @ + 1], ErrorMessage("enoent"))
           ELSE /\ files' = [files EXCEPT ![req[r].name] = 0]
                /\ req' = [req EXCEPT ![r] =
                     Respond([q EXCEPT !.unlinks = @ + 1], 200, SdkSuccessBody(o))]
  /\ UNCHANGED <<variant, env, server, clock, client>>

(* ------------------------------ analyzeScene --------------------------- *)
\* The ways the try block of analyzeScene throws: readFileSync (enoent), fetch
\* (badurl, transport), the !response.ok throw (status), response.json()
\* (malformed), result.choices[0].message.content or analysis.substring (nochoices)
BodyThrows(o) == o \in {"enoent", "badurl", "transport", "status", "malformed", "nochoices"}

\* Mutant: the error is rethrown from the catch block
analyzeScene_Rethrow(o) ==
  IF BodyThrows(o)
  THEN [raised |-> TRUE, value |-> Null]
  ELSE [raised |-> FALSE, value |-> IF o = "ok" THEN "analysis text" ELSE ""]

\* What analyzeScene gives back: the catch block returns null, else the content
analyzeScene(o) ==
  IF BodyThrows(o)
  THEN [raised |-> FALSE, value |-> Null]
  ELSE [raised |-> FALSE, value |-> IF o = "ok" THEN "analysis text" ELSE ""]

Falsy(v) == v = Null \/ v = ""

\* Mutant: the analysis-failure branch removes the upload before answering
AnalyzeRespond_CleanupOnFailure(r, q, scene) ==
  IF Falsy(scene.value)
  THEN /\ files' = IF HasFile(r) THEN [files EXCEPT ![req[r].name] = 0] ELSE files
       /\ req' = [req EXCEPT ![r] =
            Respond([q EXCEPT !.scene = scene], 500,
                    [error |-> "Failed to analyze scene",
                     analysis |-> "Unable to identify objects in the scene."])]
  ELSE /\ files' = files
       /\ req' = [req EXCEPT ![r] =
            Respond([q EXCEPT !.scene = scene], 200,
                    [success |-> TRUE, analysis |-> scene.value,
                     filename |-> req[r].name])]

\* /api/analyze after `await analyzeScene(imagePath)`
AnalyzeRespond(r, q, scene) ==
  IF scene.raised
  THEN \* catch block of the handler: guarded unlink, then 500
       LET present == HasFile(r) /\ Exists(req[r].name)
       IN  /\ files' = IF present THEN [files EXCEPT ![req[r].name] = 0] ELSE files
           /\ req' = [req EXCEPT ![r] =
                Respond([q EXCEPT !.scene = scene,
                                  !.unlinks = IF present THEN @ + 1 ELSE @], 500,
                        [error |-> "Failed to analyze image", details |-> "error"])]
  ELSE /\ files' = files
       /\ req' = [req EXCEPT ![r] =
            IF Falsy(scene.value)
            THEN Respond([q EXCEPT !.scene = scene], 500,
                         [error |-> "Failed to analyze scene",
                          analysis |-> "Unable to identify objects in the scene."])
            ELSE Respond([q EXCEPT !.scene = scene], 200,
                         [success |-> TRUE, analysis |-> scene.value,
                          filename |-> req[r].name])]

(* ----------------------------- /api/analyze ---------------------------- *)
\* From the entry of the handler to the await of fetch inside analyzeScene
AnalyzeStart(r) ==
  /\ variant = "fetch"
  /\ req[r].pc = "uploaded"
  /\ req[r].route = "analyze"
  /\ IF ~HasFile(r)
     THEN /\ req' = [req EXCEPT ![r] = Respond(@, 400, NoFileBody)]
          /\ files' = files
     ELSE IF ~Exists(req[r].name)
     THEN \* fs.readFileSync throws inside analyzeScene's try
          AnalyzeRespond(r, [req[r] EXCEPT !.outcome = "enoent"], analyzeScene("enoent"))
     ELSE IF ~env.endpoint
     THEN \* fetch rejects: not an absolute URL
          AnalyzeRespond(r, [req[r] EXCEPT !.outcome = "badurl", !.visionCalls = @ + 1],
                         analyzeScene("badurl"))
     ELSE /\ req' = [req EXCEPT ![r] =
               [@ EXCEPT !.pc = "awaiting", !.visionCalls = @ + 1, !.outcome = "sent"]]
          /\ files' = files
  /\ UNCHANGED <<variant, env, server, clock, client>>

\* From the answer of the vision call to the response
AnalyzeFinish(r) ==
  /\ variant = "fetch"
  /\ req[r].pc = "awaiting"
  /\ req[r].route = "analyze"
  /\ \E o \in Answers(VisionOutcomes, TRUE) :
       AnalyzeRespond(r, [req[r] EXCEPT !.outcome = o], analyzeScene(o))
  /\ UNCHANGED <<variant, env, server, clock, client>>

Next ==
  \/ Start
  \/ Tick
  \/ \E r \in Reqs : Arrive(r, NoFields)
  \/ \E r \in Reqs : TransformStart(r)
  \/ \E r \in Reqs : TransformFinish(r)
  \/ \E r \in Reqs : SdkTransformStart(r)
  \/ \E r \in Reqs : SdkTransformFinish(r)
  \/ \E r \in Reqs : AnalyzeStart(r)
  \/ \E r \in Reqs : AnalyzeFinish(r)

Spec == Init /\ [][Next]_vars

\* The prompt specification: one request, both form fields drawn from FieldValues
NextPrompt ==
  \/ Start
  \/ Tick
  \/ Arrive(1, FieldValues)
  \/ TransformStart(1)
  \/ TransformFinish(1)
  \/ SdkTransformStart(1)
  \/ SdkTransformFinish(1)
  \/ AnalyzeStart(1)
  \/ AnalyzeFinish(1)

SpecPrompt == Init /\ [][NextPrompt]_vars

(* ---------------------------- browser client -------------------------- *)
Images == 1..NumImages

\* The files the user can drop or browse to: images and one text file
UserFiles == [id : Images, type : MimeChoices]

\* file.type.startsWith('image/')
StartsWith(s, prefix) ==
  Len(s) >= Len(prefix) /\ SubSeq(s, 1, Len(prefix)) = prefix

ServerUnchanged == UNCHANGED <<variant, env, server, clock, files, req>>

\* handleFile, reached from the drop zone, which is rendered while !previewUrl
handleFile(file) ==
  /\ client.previewUrl = 0
  /\ IF ~StartsWith(file.type, <<"i","m","a","g","e","/">>)
     THEN client' = [client EXCEPT !.error = "Please upload an image file"]
     ELSE client' = [client EXCEPT !.selectedImage = file.id, !.error = "null",
                                   !.transformedImage = 0,
                                   !.readers = @ \cup {file.id}]
  /\ ServerUnchanged

\* reader.onloadend
onloadend(f) ==
  /\ f \in client.readers
  /\ client' = [client EXCEPT !.previewUrl = f, !.readers = @ \ {f}]
  /\ ServerUnchanged

\* transformImage up to `await fetch`; its button is rendered while previewUrl
\* is set and transformedImage is not, and is disabled while loading
transformImage ==
  /\ client.previewUrl # 0
  /\ client.transformedImage = 0
  /\ ~client.loading
  /\ IF client.selectedImage = 0
     THEN client' = client
     ELSE client' = [client EXCEPT !.loading = TRUE, !.error = "null",
                                   !.inflight = @ \cup {client.selectedImage}]
  /\ ServerUnchanged

\* What the fetch of transformImage can end in: a 200 with imageUrl, a 200
\* without it, an error status, a rejected fetch
FetchResults == {"ok", "okNoUrl", "notOk", "rejected"}

\* transformImage from the answer of fetch on: try, catch and finally
transformAnswered(f, result) ==
  /\ f \in client.inflight
  /\ client' =
       [client EXCEPT
          !.transformedImage = IF result = "ok" THEN f
                               ELSE IF result = "okNoUrl" THEN 0 ELSE @,
          !.error = IF result = "notOk" THEN "Failed to transform image"
                    ELSE IF result = "rejected" THEN "Failed to fetch" ELSE @,
          !.loading = FALSE,
          !.inflight = @ \ {f}]
  /\ ServerUnchanged

\* reset, whose button is rendered while previewUrl is set
reset ==
  /\ client.previewUrl # 0
  /\ client' = [client EXCEPT !.selectedImage = 0, !.previewUrl = 0,
                              !.transformedImage = 0, !.error = "null"]
  /\ ServerUnchanged

NextClient ==
  \/ \E file \in UserFiles : handleFile(file)
  \/ \E f \in Images : onloadend(f)
  \/ transformImage
  \/ \E f \in Images, result \in FetchResults : transformAnswered(f, result)
  \/ reset

\* The browser client alone, the server being any server
SpecClient == Init /\ [][NextClient]_vars

(* ============================== claims ================================= *)
\* The step in which request r sends its response
Completes(r) == req[r].pc # "done" /\ req'[r].pc = "done"

Persisted(q) == q.upload = "ok"

ErrorShaped(body) == {"error", "details"} \subseteq DOMAIN body

\* C1: for every request on /api/analyze or /api/transform whose upload was
\* accepted and persisted, the temp file is absent from the upload directory
\* once the response has been sent, on success and on failure.
C1_TempFileAbsentOnCompletion ==
  [][\A r \in Reqs :
       (Completes(r) /\ Persisted(req'[r])) => files'[req'[r].name] = 0]_vars

\* C2: every request whose upload is rejected (no file part, wrong type,
\* oversized) is answered with status 400 and issues no image-generation call.
C2_RejectedUploadIs400 ==
  \A r \in Reqs :
    (req[r].pc = "done" /\ req[r].upload \in {"none", "badtype", "oversize"})
      => (req[r].status = 400 /\ req[r].genCalls = 0)

\* --- C3 ---
Blank(s) == \A i \in 1..Len(s) : s[i] = " "

Spaces(n) == [i \in 1..n |-> " "]

\* The text of a form field, "" when it was not sent
FieldText(v) == IF v = Undefined THEN <<>> ELSE v

\* s without its leading and trailing blanks, for s not blank
Core(s) ==
  CHOOSE t \in Strings(Len(s)) :
    /\ t # <<>> /\ t[1] # " " /\ t[Len(t)] # " "
    /\ \E a, b \in 0..Len(s) : s = Spaces(a) \o t \o Spaces(b)

ExpectedScene(s) == IF Blank(s) THEN <<>> ELSE <<SceneHeader>> \o Core(s) \o <<SceneFooter>>

ExpectedInstructions(s) == IF Blank(s) THEN <<>> ELSE <<InstructionsHeader>> \o Core(s)

IndexOf(seq, x) == CHOOSE i \in 1..Len(seq) : seq[i] = x

\* C3: the prompt /api/transform of server/index.js hands to the image call is
\* the base template, then the scene section with the trimmed sceneAnalysis iff
\* it is not blank, then the instructions section with the trimmed instructions
\* iff they are not blank; with both blank it is the base template alone, and
\* with both present the scene section comes first.
C3_PromptComposition ==
  \A r \in Reqs :
    (variant = "fetch" /\ req[r].route = "transform" /\ req[r].genCalls > 0) =>
      LET sa == FieldText(req[r].sceneAnalysis)
          ins == FieldText(req[r].instructions)
          prompt == req[r].prompt
      IN  /\ prompt = BaseTemplate \o ExpectedScene(sa) \o ExpectedInstructions(ins)
          /\ (Blank(sa) /\ Blank(ins)) => prompt = BaseTemplate
          /\ (~Blank(sa) /\ ~Blank(ins)) =>
               IndexOf(prompt, SceneHeader) < IndexOf(prompt, InstructionsHeader)

\* A prompt was sent for a request whose two fields are padded text
C3_Witness ==
  \E r \in Reqs :
    /\ variant = "fetch" /\ req[r].pc = "awaiting" /\ req[r].route = "transform"
    /\ req[r].sceneAnalysis = <<" ", "a">>
    /\ req[r].instructions = <<"a", " ">>
    /\ Len(req[r].prompt) = 6

\* C4: an accepted /api/transform request whose image call succeeds with an
\* empty data array or no data field ends, in the step that sends its response,
\* with a 500 carrying error and details, no success field, and its temp file
\* gone from the upload directory.
C4_EmptyResultIs500 ==
  [][\A r \in Reqs :
       (Completes(r) /\ req'[r].route = "transform" /\ Persisted(req'[r])
          /\ req'[r].outcome \in {"empty", "nodata"})
         => /\ req'[r].status = 500
            /\ ErrorShaped(req'[r].body)
            /\ "success" \notin DOMAIN req'[r].body
            /\ files'[req'[r].name] = 0]_vars

\* An accepted transform request was answered data: [] while its file was on disk
C4_Witness ==
  \E r \in Reqs :
    /\ req[r].pc = "done" /\ req[r].route = "transform" /\ req[r].upload = "ok"
    /\ req[r].outcome = "empty" /\ req[r].unlinks = 1 /\ req[r].status = 500

\* C5: analyzeScene never raises: on a file read failure, a transport failure,
\* a non-success status or a body lacking choices[0].message.content it
\* returns null, it returns text only after a well-formed success, and the
\* step that runs it leaves the upload directory as it was.
C5_AnalyzeSceneNeverRaises ==
  [][\A r \in Reqs :
       (Completes(r) /\ req'[r].route = "analyze" /\ Persisted(req'[r]))
         => /\ ~req'[r].scene.raised
            /\ (req'[r].outcome \in {"enoent", "badurl", "transport", "status",
                                     "malformed", "nochoices"})
                 => req'[r].scene.value = Null
            /\ (req'[r].scene.value # Null) => req'[r].outcome \in {"ok", "okEmpty"}
            /\ (req'[r].outcome = "ok") => req'[r].scene.value = "analysis text"
            /\ files' = files]_vars

\* analyzeScene returned null after a body lacking the content, file still there
C5_Witness ==
  \E r \in Reqs :
    /\ req[r].pc = "done" /\ req[r].route = "analyze" /\ req[r].upload = "ok"
    /\ req[r].outcome = "nochoices" /\ req[r].scene.value = Null
    /\ files[req[r].name] = r

\* C6: an accepted /api/analyze request whose vision call answers a non-success
\* status is answered 500 with the fallback analysis, and no step of an analyze
\* handler changes the upload directory or the state of any other request, so a
\* transform request before, during or after it runs as it would alone.
C6_AnalyzeFailureIsolated ==
  [][\A r \in Reqs :
       (req[r].route = "analyze" /\ Persisted(req[r]) /\ req'[r] # req[r])
         => /\ files' = files
            /\ \A t \in Reqs \ {r} : req'[t] = req[t]
            /\ (req'[r].pc = "done" /\ req'[r].outcome = "status")
                 => /\ req'[r].status = 500
                    /\ req'[r].body.analysis = "Unable to identify objects in the scene."]_vars

\* A failed analyze request and a successful transform request sharing a file name
C6_Witness ==
  \E a, t \in Reqs :
    /\ req[a].route = "analyze" /\ req[a].pc = "done" /\ req[a].outcome = "status"
    /\ req[a].status = 500
    /\ req[t].route = "transform" /\ req[t].pc = "done" /\ req[t].status = 200
    /\ req[a].name = req[t].name

\* C7: every error response (status 400 or 500) of any route carries both an
\* error field and a details field.
C7_ErrorResponsesCarryDetails ==
  \A r \in Reqs :
    (req[r].pc = "done" /\ req[r].status \in {400, 500}) => ErrorShaped(req[r].body)

\* C8: any two requests that persisted an upload have distinct temp files, and
\* the file of a request in flight is the one that request wrote.
C8_DistinctTempFiles ==
  /\ \A r1, r2 \in Reqs :
       (r1 # r2 /\ Persisted(req[r1]) /\ Persisted(req[r2])) => req[r1].name # req[r2].name
  /\ \A r \in Reqs :
       (Persisted(req[r]) /\ req[r].pc # "done") => files[req[r].name] = r

\* C9: a successful /api/transform response carries a usable imageUrl for both
\* provider shapes: the provider's URL for data[0].url, the data URI of the
\* payload for data[0].b64_json, never a reference built from an absent field.
C9_ImageUrlUsable ==
  \A r \in Reqs :
    (req[r].pc = "done" /\ req[r].route = "transform" /\ req[r].status = 200) =>
      /\ "imageUrl" \in DOMAIN req[r].body
      /\ (req[r].outcome = "url") => req[r].body.imageUrl = ProviderUrl
      /\ (req[r].outcome = "b64") =>
           req[r].body.imageUrl = <<"data:image/png;base64,", "b64_json">>

\* C10: with the endpoint or the credential not configured the server still
\* reaches the listening state, and every accepted /api/transform request ends
\* in the 500 {error, details} response with its temp file deleted.
C10_MissingConfigFailsCleanly ==
  [][(~env.endpoint \/ ~env.apiKey) =>
       /\ server' # "crashed"
       /\ \A r \in Reqs :
            (Completes(r) /\ req'[r].route = "transform" /\ Persisted(req'[r]))
              => /\ req'[r].status = 500
                 /\ ErrorShaped(req'[r].body)
                 /\ files'[req'[r].name] = 0]_vars

\* C11: every /api/transform request that persisted an upload attempts the
\* deletion of its temp file at most once and before its response, leaves the
\* file absent, and a deletion that finds the file already absent does not
\* change the response: a successful image call still ends in the 200 response.
C11_DeleteOnceAbsentIsNoOp ==
  [][\A r \in Reqs :
       (Completes(r) /\ req'[r].route = "transform" /\ Persisted(req'[r]))
         => /\ req'[r].unlinks <= 1
            /\ files'[req'[r].name] = 0
            /\ (req'[r].outcome \in {"b64", "url"}) => req'[r].status = 200]_vars

C13_ResultMatchesSelection ==
  client.transformedImage # 0 => client.transformedImage = client.selectedImage
====
